---------------------------- MODULE Spec2Model ----------------------------
(***************************************************************************)
(* Model of scripts/split-generic-fields.py: the synthesis of the concrete *)
(* text and number field schemas, the splice of the anyOf union inside     *)
(* tables.schema.json, and the read / write of that file by main().        *)
(*                                                                         *)
(* Python values are modelled as tagged records [t, v]:                    *)
(*   str, bool, num  - scalars;  arr - a list;  none - None;               *)
(*   obj - a dict, kept as the sequence of its (key, value) entries in     *)
(*         insertion order, as CPython dicts and json.load / dump do.      *)
(***************************************************************************)
EXTENDS Integers, Sequences, FiniteSets, TLC

VARIABLES
    file,            \* the stored file: [exists, toks]
    pc,              \* position of main()
    err,             \* the exception that ended the run, or "none"
    schema,          \* main's local `schema`
    new_any_of,      \* main's local `new_any_of`
    original_any_of, \* main's local `original_any_of`
    runs,            \* number of invocations of main() started so far
    start_file,      \* the file as it was when the current run started
    first_file,      \* the file as the first run left it
    orig_file,       \* the file as it was before the first run
    args,            \* arguments of one call of a create_*_field function
    result           \* the value that call returned

vars == << file, pc, err, schema, new_any_of, original_any_of, runs,
           start_file, first_file, orig_file, args, result >>

----------------------------------------------------------------------------
(* Python / JSON values *)

Str(s) == [t |-> "str", v |-> s]

Bool(b) == [t |-> "bool", v |-> b]

Num(n) == [t |-> "num", v |-> n]

Arr(a) == [t |-> "arr", v |-> a]

Obj(m) == [t |-> "obj", v |-> m]

KV(k, x) == [k |-> k, v |-> x]

None == [t |-> "none", v |-> "None"]

\* position of key k among the entries of dict d, 0 when absent
KeyIndex(d, k) ==
    IF \E i \in 1..Len(d.v) : d.v[i].k = k
    THEN CHOOSE i \in 1..Len(d.v) : d.v[i].k = k
    ELSE 0

\* k in d
HasKey(d, k) == KeyIndex(d, k) # 0

\* d[k], for a key that is present
GetItem(d, k) == d.v[KeyIndex(d, k)].v

\* d.get(k, default)
DictGet(d, k, default) == IF HasKey(d, k) THEN GetItem(d, k) ELSE default

\* d[k] = x : an existing key keeps its position, a new key goes last
SetItem(d, k, x) ==
    IF HasKey(d, k)
    THEN Obj([d.v EXCEPT ![KeyIndex(d, k)] = KV(k, x)])
    ELSE Obj(Append(d.v, KV(k, x)))

\* d.update(other) : SetItem for every entry of other, in other's order
RECURSIVE UpdateFrom(_, _, _)
UpdateFrom(d, other, i) ==
    IF i > Len(other.v) THEN d
    ELSE UpdateFrom(SetItem(d, other.v[i].k, other.v[i].v), other, i + 1)

Update(d, other) == UpdateFrom(d, other, 1)

\* the keys of d, in order
Keys(d) == [i \in 1..Len(d.v) |-> d.v[i].k]

\* Python truthiness of an optional dict: None and {} are false
Truthy(x) == x.t # "none" /\ (x.t \in {"obj", "arr"} => Len(x.v) > 0)

----------------------------------------------------------------------------
(* create_text_field / create_number_field *)

create_text_field(field_type, title, description, business_rules, user_stories) ==
  Obj(<<
    KV("title", Str(title)),
    KV("description", Str(description)),
    KV("type", Str("object")),
    KV("properties", Obj(<<
      KV("id", Obj(<<
        KV("$ref", Str("../common/definitions.schema.json#/definitions/id")),
        KV("x-user-stories", Arr(<<
          Str("GIVEN a new entity is created WHEN the system assigns an ID THEN it should be unique within the parent collection"),
          Str("GIVEN an entity exists WHEN attempting to modify its ID THEN the system should prevent changes (read-only constraint)"),
          Str("GIVEN a client requests an entity by ID WHEN the ID is valid THEN the entity should be retrieved successfully") >>)) >>)),
      KV("name", Obj(<<
        KV("$ref", Str("../common/definitions.schema.json#/definitions/name")),
        KV("x-user-stories", Arr(<<
          Str("GIVEN new field is created WHEN saving configuration THEN field name should follow database naming conventions"),
          Str("GIVEN field with duplicate name WHEN validating table schema THEN error should prevent conflicts"),
          Str("GIVEN field name is set WHEN querying data THEN field should be accessible by its name") >>)) >>)),
      KV("required", Obj(<<
        KV("type", Str("boolean")),
        KV("default", Bool(FALSE)),
        KV("x-business-rules", Arr(<<
          Str("Defaults to false when not specified, providing sensible fallback behavior without requiring explicit configuration") >>)),
        KV("x-user-stories", Arr(<<
          Str("GIVEN required is true WHEN processing entity THEN corresponding behavior should be enforced"),
          Str("GIVEN required is false (default: False) WHEN processing entity THEN corresponding behavior should not be enforced"),
          Str("GIVEN configuration with required WHEN validating settings THEN boolean value should be accepted") >>)) >>)),
      KV("unique", Obj(<<
        KV("type", Str("boolean")),
        KV("default", Bool(FALSE)),
        KV("description", Str("Whether this field must contain unique values across all rows")),
        KV("x-business-rules", Arr(<<
          Str("Uniqueness constraint prevents conflicts and ensures each unique can be unambiguously referenced"),
          Str("Defaults to false when not specified, providing sensible fallback behavior without requiring explicit configuration") >>)),
        KV("x-user-stories", Arr(<<
          Str("GIVEN unique is true WHEN processing entity THEN corresponding behavior should be enforced"),
          Str("GIVEN unique is false (default: False) WHEN processing entity THEN corresponding behavior should not be enforced"),
          Str("GIVEN configuration with unique WHEN validating settings THEN boolean value should be accepted") >>)) >>)),
      KV("indexed", Obj(<<
        KV("type", Str("boolean")),
        KV("default", Bool(FALSE)),
        KV("description", Str("Whether to create a database index on this field for faster queries")),
        KV("x-business-rules", Arr(<<
          Str("Defaults to false when not specified, providing sensible fallback behavior without requiring explicit configuration") >>)),
        KV("x-user-stories", Arr(<<
          Str("GIVEN indexed is true WHEN processing entity THEN corresponding behavior should be enforced"),
          Str("GIVEN indexed is false (default: False) WHEN processing entity THEN corresponding behavior should not be enforced"),
          Str("GIVEN configuration with indexed WHEN validating settings THEN boolean value should be accepted") >>)) >>)),
      KV("type", Obj(<<
        KV("const", Str(field_type)),
        KV("x-business-rules", Arr(<<
          Str("Constant value '" \o field_type \o "' ensures type safety and enables discriminated unions for field type validation") >>)),
        KV("x-user-stories", Arr(<<
          Str("GIVEN a " \o title \o " is configured WHEN validating schema THEN type must be '" \o field_type \o "'"),
          Str("GIVEN type is set to '" \o field_type \o "' WHEN processing field THEN it should be treated as a " \o title) >>)) >>)),
      KV("default", Obj(<<
        KV("type", Str("string")),
        KV("x-user-stories", Arr(<<
          Str("GIVEN user provides default WHEN validating input THEN string value should be accepted"),
          Str("GIVEN default is empty string WHEN validating input THEN behavior should follow optional/required rules") >>)) >>)) >>)),
    KV("required", Arr(<<
      Str("id"),
      Str("name"),
      Str("type") >>)),
    KV("additionalProperties", Bool(FALSE)),
    KV("x-user-stories", user_stories),
    KV("x-business-rules", business_rules) >>)

\* lines 98-195: the dict literal bound to field_schema
field_schema(field_type, title, description, business_rules) ==
  Obj(<<
    KV("title", Str(title)),
    KV("description", Str(description)),
    KV("type", Str("object")),
    KV("properties", Obj(<<
      KV("id", Obj(<<
        KV("$ref", Str("../common/definitions.schema.json#/definitions/id")),
        KV("x-user-stories", Arr(<<
          Str("GIVEN a new entity is created WHEN the system assigns an ID THEN it should be unique within the parent collection"),
          Str("GIVEN an entity exists WHEN attempting to modify its ID THEN the system should prevent changes (read-only constraint)"),
          Str("GIVEN a client requests an entity by ID WHEN the ID is valid THEN the entity should be retrieved successfully") >>)) >>)),
      KV("name", Obj(<<
        KV("$ref", Str("../common/definitions.schema.json#/definitions/name")),
        KV("x-user-stories", Arr(<<
          Str("GIVEN new field is created WHEN saving configuration THEN field name should follow database naming conventions"),
          Str("GIVEN field with duplicate name WHEN validating table schema THEN error should prevent conflicts"),
          Str("GIVEN field name is set WHEN querying data THEN field should be accessible by its name") >>)) >>)),
      KV("required", Obj(<<
        KV("type", Str("boolean")),
        KV("default", Bool(FALSE)),
        KV("x-business-rules", Arr(<<
          Str("Defaults to false when not specified, providing sensible fallback behavior without requiring explicit configuration") >>)),
        KV("x-user-stories", Arr(<<
          Str("GIVEN required is true WHEN processing entity THEN corresponding behavior should be enforced"),
          Str("GIVEN required is false (default: False) WHEN processing entity THEN corresponding behavior should not be enforced"),
          Str("GIVEN configuration with required WHEN validating settings THEN boolean value should be accepted") >>)) >>)),
      KV("unique", Obj(<<
        KV("type", Str("boolean")),
        KV("default", Bool(FALSE)),
        KV("description", Str("Whether this field must contain unique values across all rows")),
        KV("x-business-rules", Arr(<<
          Str("Uniqueness constraint prevents conflicts and ensures each unique can be unambiguously referenced"),
          Str("Defaults to false when not specified, providing sensible fallback behavior without requiring explicit configuration") >>)),
        KV("x-user-stories", Arr(<<
          Str("GIVEN unique is true WHEN processing entity THEN corresponding behavior should be enforced"),
          Str("GIVEN unique is false (default: False) WHEN processing entity THEN corresponding behavior should not be enforced"),
          Str("GIVEN configuration with unique WHEN validating settings THEN boolean value should be accepted") >>)) >>)),
      KV("indexed", Obj(<<
        KV("type", Str("boolean")),
        KV("default", Bool(FALSE)),
        KV("description", Str("Whether to create a database index on this field for faster queries")),
        KV("x-business-rules", Arr(<<
          Str("Defaults to false when not specified, providing sensible fallback behavior without requiring explicit configuration") >>)),
        KV("x-user-stories", Arr(<<
          Str("GIVEN indexed is true WHEN processing entity THEN corresponding behavior should be enforced"),
          Str("GIVEN indexed is false (default: False) WHEN processing entity THEN corresponding behavior should not be enforced"),
          Str("GIVEN configuration with indexed WHEN validating settings THEN boolean value should be accepted") >>)) >>)),
      KV("type", Obj(<<
        KV("const", Str(field_type)),
        KV("x-business-rules", Arr(<<
          Str("Constant value '" \o field_type \o "' ensures type safety and enables discriminated unions for field type validation") >>)),
        KV("x-user-stories", Arr(<<
          Str("GIVEN a " \o title \o " is configured WHEN validating schema THEN type must be '" \o field_type \o "'"),
          Str("GIVEN type is set to '" \o field_type \o "' WHEN processing field THEN it should be treated as a " \o title) >>)) >>)),
      KV("min", Obj(<<
        KV("type", Str("number")),
        KV("description", Str("Minimum value")),
        KV("x-user-stories", Arr(<<
          Str("GIVEN user provides min WHEN validating input THEN numeric value should be accepted"),
          Str("GIVEN user provides non-numeric min WHEN validating input THEN error should require number") >>)) >>)),
      KV("max", Obj(<<
        KV("type", Str("number")),
        KV("description", Str("Maximum value")),
        KV("x-user-stories", Arr(<<
          Str("GIVEN user provides max WHEN validating input THEN numeric value should be accepted"),
          Str("GIVEN user provides non-numeric max WHEN validating input THEN error should require number") >>)) >>)),
      KV("default", Obj(<<
        KV("type", Str("number")),
        KV("x-user-stories", Arr(<<
          Str("GIVEN user provides default WHEN validating input THEN numeric value should be accepted"),
          Str("GIVEN user provides non-numeric default WHEN validating input THEN error should require number") >>)) >>)) >>)),
    KV("required", Arr(<<
      Str("id"),
      Str("name"),
      Str("type") >>)),
    KV("additionalProperties", Bool(FALSE)),
    KV("x-business-rules", business_rules) >>)

\* lines 96-201 with update() applied to field_schema itself
create_number_field_toplevel(field_type, title, description, business_rules, user_stories, additional_props) ==
    IF Truthy(additional_props)
    THEN Update(field_schema(field_type, title, description, business_rules),
                additional_props)
    ELSE field_schema(field_type, title, description, business_rules)

\* lines 96-201 with field_type and title passed in each other's place
create_number_field_swapped(field_type, title, description, business_rules, user_stories, additional_props) ==
    IF Truthy(additional_props)
    THEN SetItem(field_schema(title, field_type, description, business_rules),
                 "properties",
                 Update(GetItem(field_schema(title, field_type, description,
                                             business_rules), "properties"),
                        additional_props))
    ELSE field_schema(title, field_type, description, business_rules)

\* lines 96-201 with additional_props stored whole under one key whenever it
\* is not None
create_number_field_nested(field_type, title, description, business_rules, user_stories, additional_props) ==
    IF additional_props # None
    THEN SetItem(field_schema(field_type, title, description, business_rules),
                 "properties",
                 SetItem(GetItem(field_schema(field_type, title, description,
                                              business_rules), "properties"),
                         "additional_props", additional_props))
    ELSE field_schema(field_type, title, description, business_rules)

\* lines 96-201 with the template merged into additional_props instead of
\* additional_props into the template
create_number_field_extras_first(field_type, title, description, business_rules, user_stories, additional_props) ==
    IF Truthy(additional_props)
    THEN SetItem(field_schema(field_type, title, description, business_rules),
                 "properties",
                 Update(additional_props,
                        GetItem(field_schema(field_type, title, description,
                                             business_rules), "properties")))
    ELSE field_schema(field_type, title, description, business_rules)

\* lines 96-201
create_number_field(field_type, title, description, business_rules, user_stories, additional_props) ==
    IF Truthy(additional_props)
    THEN SetItem(field_schema(field_type, title, description, business_rules),
                 "properties",
                 Update(GetItem(field_schema(field_type, title, description,
                                             business_rules), "properties"),
                        additional_props))
    ELSE field_schema(field_type, title, description, business_rules)

----------------------------------------------------------------------------
(* the catalog of main() *)

text_fields ==
  <<
    Obj(<<
      KV("type", Str("single-line-text")),
      KV("title", Str("Single Line Text Field")),
      KV("description", Str("Short text input limited to a single line. Ideal for names, titles, labels, and brief identifiers. Text is stored as-is without formatting. Required flag makes the field mandatory. Unique constraint ensures no duplicate values across records. Indexing improves search and filter performance on this field.")),
      KV("business_rules", Arr(<<
        Str("Single-line constraint prevents multi-line input, ensuring consistent formatting and UI display"),
        Str("Text is stored without formatting, preserving raw input for maximum flexibility") >>)),
      KV("user_stories", Arr(<<
        Str("GIVEN I create a single-line text field WHEN I add a record THEN it should accept text without line breaks"),
        Str("GIVEN I create a single-line text field with unique constraint WHEN I add duplicate text THEN it should reject the input"),
        Str("GIVEN I create a required single-line text field WHEN I submit without value THEN it should show validation error") >>)) >>),
    Obj(<<
      KV("type", Str("long-text")),
      KV("title", Str("Long Text Field")),
      KV("description", Str("Multi-line text input for paragraphs, descriptions, notes, and comments. Supports line breaks and longer content. Text is stored as-is without rich formatting (no bold, italics, etc.). Required flag makes the field mandatory. Indexing improves search performance but may be slower for very long content.")),
      KV("business_rules", Arr(<<
        Str("Multi-line support allows paragraphs and structured content with line breaks"),
        Str("Text is stored without rich formatting (HTML, Markdown) to prevent injection attacks and maintain data portability") >>)),
      KV("user_stories", Arr(<<
        Str("GIVEN I create a long text field WHEN I add a record THEN it should accept multi-line text with line breaks"),
        Str("GIVEN I create a long text field WHEN I paste formatted text THEN it should strip formatting and preserve plain text"),
        Str("GIVEN I create a required long text field WHEN I submit without value THEN it should show validation error") >>)) >>),
    Obj(<<
      KV("type", Str("phone-number")),
      KV("title", Str("Phone Number Field")),
      KV("description", Str("Text field optimized for phone numbers with automatic formatting based on detected country code. Stores the raw phone number value without validation to support international formats. Display formatting helps readability but doesn't enforce strict patterns. Required flag makes the field mandatory. Unique constraint ensures no duplicate phone numbers.")),
      KV("business_rules", Arr(<<
        Str("Phone numbers are stored as raw text to support diverse international formats without strict validation"),
        Str("Automatic formatting improves readability but doesn't restrict input, allowing flexibility for edge cases") >>)),
      KV("user_stories", Arr(<<
        Str("GIVEN I create a phone number field WHEN I enter a phone number THEN it should format it automatically for display"),
        Str("GIVEN I create a phone number field WHEN I enter an international number THEN it should accept it without validation errors"),
        Str("GIVEN I create a phone number field with unique constraint WHEN I enter a duplicate number THEN it should reject the input") >>)) >>),
    Obj(<<
      KV("type", Str("email")),
      KV("title", Str("Email Field")),
      KV("description", Str("Text field with email format validation (username@domain). Validates email structure (presence of @ symbol and domain) without sending test emails. Stores email as lowercase for consistent lookups. Required flag makes the field mandatory. Unique constraint ensures no duplicate emails. Indexing enables fast email-based queries.")),
      KV("business_rules", Arr(<<
        Str("Email validation checks structure (@ symbol, domain) without verifying deliverability to balance usability and data quality"),
        Str("Emails are stored as lowercase to prevent duplicate entries differing only by case (Email@example.com vs email@example.com)") >>)),
      KV("user_stories", Arr(<<
        Str("GIVEN I create an email field WHEN I enter a valid email THEN it should accept the input"),
        Str("GIVEN I create an email field WHEN I enter text without @ symbol THEN it should show validation error"),
        Str("GIVEN I create an email field with unique constraint WHEN I enter a duplicate email THEN it should reject the input regardless of case") >>)) >>),
    Obj(<<
      KV("type", Str("url")),
      KV("title", Str("URL Field")),
      KV("description", Str("Text field for web links with URL format validation (http:// or https://). Validates URL structure and protocol without checking if the link is reachable. Stores full URL including protocol. Display shows clickable link in the UI. Required flag makes the field mandatory. Unique constraint ensures no duplicate URLs.")),
      KV("business_rules", Arr(<<
        Str("URL validation checks structure and protocol (http/https) without verifying link reachability to avoid external dependencies"),
        Str("Full URL with protocol is stored to ensure links work correctly when clicked (http://example.com, not example.com)") >>)),
      KV("user_stories", Arr(<<
        Str("GIVEN I create a URL field WHEN I enter a valid URL with http:// or https:// THEN it should accept the input"),
        Str("GIVEN I create a URL field WHEN I enter text without protocol THEN it should show validation error"),
        Str("GIVEN I create a URL field WHEN I view the record THEN the URL should display as a clickable link") >>)) >>)
  >>

number_fields ==
  <<
    Obj(<<
      KV("type", Str("integer")),
      KV("title", Str("Integer Field")),
      KV("description", Str("Whole number field without decimal places. Ideal for counts, IDs, quantities, ages, and rankings. Supports min/max constraints for range validation. Required flag makes the field mandatory. Unique constraint ensures no duplicate values. Indexing enables efficient numerical sorting and filtering.")),
      KV("business_rules", Arr(<<
        Str("Integer constraint ensures only whole numbers are accepted, preventing decimal input"),
        Str("Min/max constraints provide range validation to keep values within business-defined bounds") >>)),
      KV("user_stories", Arr(<<
        Str("GIVEN I create an integer field WHEN I enter a whole number THEN it should accept the input"),
        Str("GIVEN I create an integer field WHEN I enter a decimal number THEN it should reject the input"),
        Str("GIVEN I create an integer field with min=0 and max=100 WHEN I enter 150 THEN it should show validation error") >>)),
      KV("additional_props", Obj(<< >>)) >>),
    Obj(<<
      KV("type", Str("decimal")),
      KV("title", Str("Decimal Field")),
      KV("description", Str("Floating-point number field with configurable decimal precision (0-10 places). Ideal for measurements, scores, ratings, and scientific data. Precision determines how many decimal places are stored and displayed (default: 2). Supports min/max constraints for range validation. Required flag makes the field mandatory.")),
      KV("business_rules", Arr(<<
        Str("Precision (0-10 decimal places) controls rounding and storage, preventing floating-point errors"),
        Str("Default precision of 2 decimal places suits most use cases (prices, percentages) without requiring configuration") >>)),
      KV("user_stories", Arr(<<
        Str("GIVEN I create a decimal field with precision=2 WHEN I enter 3.14159 THEN it should round to 3.14"),
        Str("GIVEN I create a decimal field WHEN I enter a whole number THEN it should accept it and display with decimal places"),
        Str("GIVEN I create a decimal field with min=0.0 and max=1.0 WHEN I enter 1.5 THEN it should show validation error") >>)),
      KV("additional_props", Obj(<<
        KV("precision", Obj(<<
          KV("type", Str("integer")),
          KV("description", Str("Number of decimal places")),
          KV("minimum", Num(0)),
          KV("maximum", Num(10)),
          KV("default", Num(2)),
          KV("x-business-rules", Arr(<<
            Str("Numeric range (0-10) prevents overflow errors and ensures values stay within valid business bounds"),
            Str("Defaults to 2 when not specified, providing sensible fallback behavior without requiring explicit configuration") >>)),
          KV("x-user-stories", Arr(<<
            Str("GIVEN user provides precision between 0 and 10 WHEN validating input THEN value should be accepted"),
            Str("GIVEN user provides precision below 0 WHEN validating input THEN error should enforce minimum value"),
            Str("GIVEN user provides precision above 10 WHEN validating input THEN error should enforce maximum value") >>)) >>)) >>)) >>),
    Obj(<<
      KV("type", Str("currency")),
      KV("title", Str("Currency Field")),
      KV("description", Str("Monetary value field with currency code (USD, EUR, GBP, etc.). Stores numeric value with 2 decimal places for cents/pence. Currency code determines display format and symbol ($, €, £). Supports min/max constraints for range validation. Required flag makes the field mandatory. Indexing enables efficient sorting by monetary value.")),
      KV("business_rules", Arr(<<
        Str("Currency code is stored separately from value to support multi-currency applications and accurate conversions"),
        Str("Fixed 2 decimal places match standard accounting practices for monetary values (cents/pence precision)"),
        Str("Default currency of USD provides sensible fallback for applications without multi-currency needs") >>)),
      KV("user_stories", Arr(<<
        Str("GIVEN I create a currency field with USD WHEN I enter 99.99 THEN it should display as $99.99"),
        Str("GIVEN I create a currency field with EUR WHEN I enter 99.99 THEN it should display as €99.99"),
        Str("GIVEN I create a currency field WHEN I enter 99.999 THEN it should round to 2 decimal places (99.99)") >>)),
      KV("additional_props", Obj(<<
        KV("currency", Obj(<<
          KV("type", Str("string")),
          KV("description", Str("Currency code (ISO 4217)")),
          KV("default", Str("USD")),
          KV("examples", Arr(<<
            Str("USD"),
            Str("EUR"),
            Str("GBP"),
            Str("JPY"),
            Str("CAD") >>)),
          KV("x-business-rules", Arr(<<
            Str("Defaults to \"USD\" when not specified, providing sensible fallback behavior without requiring explicit configuration"),
            Str("Currency code should follow ISO 4217 standard for international compatibility") >>)),
          KV("x-user-stories", Arr(<<
            Str("GIVEN user provides currency WHEN validating input THEN string value should be accepted"),
            Str("GIVEN currency is empty string WHEN validating input THEN default to USD") >>)) >>)) >>)) >>),
    Obj(<<
      KV("type", Str("percentage")),
      KV("title", Str("Percentage Field")),
      KV("description", Str("Ratio field displayed as percentage (0-100%). Stores value as decimal (0.0-1.0 or 0-100 depending on configuration). Display adds % symbol automatically. Supports min/max constraints for range validation (typically 0-100). Required flag makes the field mandatory. Useful for completion rates, discounts, and probability values.")),
      KV("business_rules", Arr(<<
        Str("Percentage values are displayed with % symbol but stored as numbers to enable mathematical operations"),
        Str("Min/max constraints typically enforce 0-100 range but can be configured for specific use cases (e.g., growth rates >100%)") >>)),
      KV("user_stories", Arr(<<
        Str("GIVEN I create a percentage field WHEN I enter 75 THEN it should display as 75%"),
        Str("GIVEN I create a percentage field with max=100 WHEN I enter 150 THEN it should show validation error"),
        Str("GIVEN I create a percentage field WHEN I enter a decimal like 33.33 THEN it should accept it and display as 33.33%") >>)),
      KV("additional_props", Obj(<< >>)) >>)
  >>

----------------------------------------------------------------------------
(* json.dump / json.load on the stored file *)

Tok(k, x) == [tok |-> k, val |-> x]

\* json.dump(schema, f, indent=2): the chunks the encoder writes, in order;
\* a dict's entries are written in insertion order
RECURSIVE Dump(_)
RECURSIVE DumpEntries(_, _)
RECURSIVE DumpItems(_, _)
Dump(j) ==
    CASE j.t = "obj" -> <<Tok("{", "")>> \o DumpEntries(j.v, 1) \o <<Tok("}", "")>>
      [] j.t = "arr" -> <<Tok("[", "")>> \o DumpItems(j.v, 1) \o <<Tok("]", "")>>
      [] j.t = "none" -> <<Tok("null", "")>>
      [] OTHER -> <<Tok(j.t, j.v)>>

DumpEntries(m, i) ==
    IF i > Len(m) THEN << >>
    ELSE <<Tok("key", m[i].k)>> \o Dump(m[i].v) \o DumpEntries(m, i + 1)

DumpItems(a, i) ==
    IF i > Len(a) THEN << >>
    ELSE Dump(a[i]) \o DumpItems(a, i + 1)

Parsed(x, n) == [ok |-> TRUE, val |-> x, next |-> n]

NotParsed == [ok |-> FALSE, val |-> None, next |-> 0]

\* json.load(f): a value is read from position i on; anything else than one
\* complete value followed by the end of the file is a JSONDecodeError
RECURSIVE ParseValue(_, _)
RECURSIVE ParseEntries(_, _, _)
RECURSIVE ParseItems(_, _, _)
ParseValue(toks, i) ==
    IF i > Len(toks) THEN NotParsed
    ELSE CASE toks[i].tok = "{" -> ParseEntries(toks, i + 1, Obj(<< >>))
           [] toks[i].tok = "[" -> ParseItems(toks, i + 1, << >>)
           [] toks[i].tok = "null" -> Parsed(None, i + 1)
           [] toks[i].tok \in {"str", "num", "bool"} ->
                  Parsed([t |-> toks[i].tok, v |-> toks[i].val], i + 1)
           [] OTHER -> NotParsed

ParseEntries(toks, i, acc) ==
    IF i > Len(toks) THEN NotParsed
    ELSE IF toks[i].tok = "}" THEN Parsed(acc, i + 1)
    ELSE IF toks[i].tok # "key" THEN NotParsed
    ELSE LET r == ParseValue(toks, i + 1)
         IN  IF r.ok
             THEN ParseEntries(toks, r.next, SetItem(acc, toks[i].val, r.val))
             ELSE NotParsed

ParseItems(toks, i, acc) ==
    IF i > Len(toks) THEN NotParsed
    ELSE IF toks[i].tok = "]" THEN Parsed(Arr(acc), i + 1)
    ELSE LET r == ParseValue(toks, i)
         IN  IF r.ok THEN ParseItems(toks, r.next, Append(acc, r.val))
             ELSE NotParsed

Load(toks) ==
    LET r == ParseValue(toks, 1)
    IN  IF r.ok /\ r.next = Len(toks) + 1 THEN r ELSE NotParsed

----------------------------------------------------------------------------
(* main() *)

\* schema["items"]["properties"]["fields"]["items"]
ItemsPath == <<"items", "properties", "fields", "items">>

Found(x) == [err |-> "none", val |-> x]

Raised(e) == [err |-> e, val |-> None]

\* x[path[i]][path[i+1]]... : subscripting with a str key raises TypeError on
\* anything but a dict and KeyError on a dict without the key
RECURSIVE Subscript(_, _, _)
Subscript(x, path, i) ==
    IF i > Len(path) THEN Found(x)
    ELSE IF x.t # "obj" THEN Raised("TypeError")
    ELSE IF ~HasKey(x, path[i]) THEN Raised("KeyError")
    ELSE Subscript(GetItem(x, path[i]), path, i + 1)

\* x[path[i]]...[path[n]][k] = y, for a path that Subscript finds
RECURSIVE AssignAt(_, _, _, _, _)
AssignAt(x, path, i, k, y) ==
    IF i > Len(path) THEN SetItem(x, k, y)
    ELSE SetItem(x, path[i], AssignAt(GetItem(x, path[i]), path, i + 1, k, y))

\* lines 384-391: one create_text_field call per entry of text_fields
RECURSIVE TextSchemas(_, _)
TextSchemas(fields, i) ==
    IF i > Len(fields) THEN << >>
    ELSE <<create_text_field(GetItem(fields[i], "type").v,
                             GetItem(fields[i], "title").v,
                             GetItem(fields[i], "description").v,
                             GetItem(fields[i], "business_rules"),
                             GetItem(fields[i], "user_stories"))>>
         \o TextSchemas(fields, i + 1)

\* lines 394-402: one create_number_field call per entry of number_fields
RECURSIVE NumberSchemas(_, _)
NumberSchemas(fields, i) ==
    IF i > Len(fields) THEN << >>
    ELSE <<create_number_field(GetItem(fields[i], "type").v,
                               GetItem(fields[i], "title").v,
                               GetItem(fields[i], "description").v,
                               DictGet(fields[i], "business_rules", Arr(<< >>)),
                               DictGet(fields[i], "user_stories", Arr(<< >>)),
                               DictGet(fields[i], "additional_props", None))>>
         \o NumberSchemas(fields, i + 1)

\* lines 408-410 with the test written i >= 1
RECURSIVE KeepRestFromOne(_, _)
KeepRestFromOne(original, i) ==
    IF i > Len(original) THEN << >>
    ELSE (IF i - 1 >= 1 THEN <<original[i]>> ELSE << >>)
         \o KeepRestFromOne(original, i + 1)

\* lines 408-410 with the kept entries inserted in front instead of appended
RECURSIVE KeepRestReversed(_, _)
KeepRestReversed(original, i) ==
    IF i > Len(original) THEN << >>
    ELSE KeepRestReversed(original, i + 1)
         \o (IF i - 1 >= 2 THEN <<original[i]>> ELSE << >>)

\* lines 408-410: the entries of the original union at index >= 2 (0-based)
RECURSIVE KeepRest(_, _)
KeepRest(original, i) ==
    IF i > Len(original) THEN << >>
    ELSE (IF i - 1 >= 2 THEN <<original[i]>> ELSE << >>)
         \o KeepRest(original, i + 1)

\* lines 381-402: new_any_of after the two loops over the catalog
NewAnyOfNumbersFirst ==
    NumberSchemas(number_fields, 1) \o TextSchemas(text_fields, 1)

NewAnyOf == TextSchemas(text_fields, 1) \o NumberSchemas(number_fields, 1)

----------------------------------------------------------------------------
(* bounds of the model and the inputs they span *)

MaxLen == 4      \* longest original union

MaxRuns == 2     \* invocations of main() in a row

MaxCut == 2      \* chunks written before a failing write stops

FullPath == ItemsPath \o <<"anyOf">>

\* the two generic members at the head of an existing union
Generic ==
    { Obj(<<KV("title", Str("Text Field"))>>),
      Obj(<<KV("title", Str("Number Field"))>>) }

\* members that follow them
Others ==
    { Obj(<<KV("title", Str("Checkbox Field")),
            KV("properties", Obj(<<KV("type", Obj(<<KV("const", Str("checkbox"))>>))>>))>>),
      Obj(<<KV("title", Str("Date Field")),
            KV("properties", Obj(<<KV("type", Obj(<<KV("const", Str("date"))>>))>>))>>) }

Unions ==
    UNION { { u \in [1..n -> Generic \cup Others] :
                \A i \in 1..n : IF i <= 2 THEN u[i] \in Generic
                                ELSE u[i] \in Others }
            : n \in 0..MaxLen }

\* a document holding the first `depth` keys of FullPath, each object with a
\* key before and a key after the one on the path; x is the value at anyOf
RECURSIVE DocAt(_, _, _)
DocAt(level, depth, x) ==
    Obj(<<KV("title", Str("level")), KV("rank", Num(level))>>
        \o (IF level < depth
            THEN <<KV(FullPath[level + 1],
                      IF level + 1 = Len(FullPath) THEN x
                      ELSE DocAt(level + 1, depth, x))>>
            ELSE << >>)
        \o <<KV("description", Str("kept"))>>)

Documents ==
    { DocAt(0, Len(FullPath), Arr(u)) : u \in Unions }
    \cup { DocAt(0, d, None) : d \in 0..(Len(FullPath) - 1) }
    \cup { DocAt(0, Len(FullPath), Num(0)),
           Obj(<<KV("items", Str("not an object"))>>),
           Arr(<< >>) }

Stored(toks) == [exists |-> TRUE, toks |-> toks]

Missing == [exists |-> FALSE, toks |-> << >>]

Files ==
    { Stored(Dump(d)) : d \in Documents }
    \cup { Missing,
           Stored(<< >>),
           Stored(<<Tok("{", ""), Tok("key", "items")>>),
           Stored(<<Tok("{", ""), Tok("}", ""), Tok("}", "")>>) }

NoArgs ==
    [field_type |-> "", title |-> "", description |-> "",
     business_rules |-> Arr(<< >>), user_stories |-> Arr(<< >>),
     additional_props |-> None]

NoResult == [by |-> "none", val |-> None]

----------------------------------------------------------------------------
(* the run of main() *)

Init ==
    /\ file \in Files
    /\ start_file = file
    /\ orig_file = file
    /\ first_file = Missing
    /\ pc = "start"
    /\ err = "none"
    /\ schema = None
    /\ new_any_of = << >>
    /\ original_any_of = None
    /\ runs = 1
    /\ args = NoArgs
    /\ result = NoResult

Fail(e) ==
    /\ pc' = "failed"
    /\ err' = e

\* lines 206-207, with the file opened 'w+' instead of 'r'
ReadSchemaTruncating ==
    /\ pc = "start"
    /\ file' = Stored(<< >>)
    /\ Fail("JSONDecodeError")
    /\ UNCHANGED << schema, new_any_of, original_any_of, runs, start_file,
                    first_file, orig_file, args, result >>

\* lines 206-207: open(schema_path, 'r') and json.load
ReadSchema ==
    /\ pc = "start"
    /\ IF ~file.exists
       THEN Fail("FileNotFoundError") /\ UNCHANGED schema
       ELSE LET read == Load(file.toks)
            IN  IF ~read.ok
                THEN Fail("JSONDecodeError") /\ UNCHANGED schema
                ELSE /\ schema' = read.val
                     /\ pc' = "loaded"
                     /\ UNCHANGED err
    /\ UNCHANGED << file, new_any_of, original_any_of, runs, start_file,
                    first_file, orig_file, args, result >>

\* lines 381-402: the catalog is synthesized into new_any_of
BuildFields ==
    /\ pc = "loaded"
    /\ new_any_of' = NewAnyOf
    /\ pc' = "built"
    /\ UNCHANGED << file, err, schema, original_any_of, runs, start_file,
                    first_file, orig_file, args, result >>

\* lines 405-410: the original union is looked up and its entries from
\* index 2 on are appended; enumerate() of a value that is no list raises
\* TypeError (unions that are dicts or strings are not among the inputs)
KeepOthers ==
    /\ pc = "built"
    /\ LET found == Subscript(schema, FullPath, 1)
       IN  IF found.err # "none"
           THEN Fail(found.err) /\ UNCHANGED << new_any_of, original_any_of >>
           ELSE IF found.val.t # "arr"
           THEN /\ Fail("TypeError")
                /\ original_any_of' = found.val
                /\ UNCHANGED new_any_of
           ELSE /\ original_any_of' = found.val
                /\ new_any_of' = new_any_of \o KeepRest(found.val.v, 1)
                /\ pc' = "kept"
                /\ UNCHANGED err
    /\ UNCHANGED << file, schema, runs, start_file, first_file, orig_file, args, result >>

\* line 413 written as schema[...]["fields"]["items"] = {"anyOf": new_any_of}
ReplaceItems ==
    /\ pc = "kept"
    /\ schema' = AssignAt(schema, SubSeq(ItemsPath, 1, Len(ItemsPath) - 1), 1,
                          ItemsPath[Len(ItemsPath)],
                          Obj(<<KV("anyOf", Arr(new_any_of))>>))
    /\ pc' = "replaced"
    /\ UNCHANGED << file, err, new_any_of, original_any_of, runs, start_file,
                    first_file, orig_file, args, result >>

\* line 413: schema[...]["anyOf"] = new_any_of
ReplaceAnyOf ==
    /\ pc = "kept"
    /\ schema' = AssignAt(schema, ItemsPath, 1, "anyOf", Arr(new_any_of))
    /\ pc' = "replaced"
    /\ UNCHANGED << file, err, new_any_of, original_any_of, runs, start_file,
                    first_file, orig_file, args, result >>

\* line 416, with the file opened 'a' instead of 'w'
OpenForAppend ==
    /\ pc = "replaced"
    /\ \/ Fail("PermissionError") /\ UNCHANGED file
       \/ /\ file' = Stored(file.toks)
          /\ pc' = "writing"
          /\ UNCHANGED err
    /\ UNCHANGED << schema, new_any_of, original_any_of, runs, start_file,
                    first_file, orig_file, args, result >>

\* line 416: open(schema_path, 'w') either fails and leaves the file alone,
\* or truncates it
OpenForWrite ==
    /\ pc = "replaced"
    /\ \/ Fail("PermissionError") /\ UNCHANGED file
       \/ /\ file' = Stored(<< >>)
          /\ pc' = "writing"
          /\ UNCHANGED err
    /\ UNCHANGED << schema, new_any_of, original_any_of, runs, start_file,
                    first_file, orig_file, args, result >>

\* line 417: json.dump writes the chunks after what the file holds; a write
\* that fails (disk full, I/O error) stops after some of them
DumpSchema ==
    /\ pc = "writing"
    /\ LET chunks == Dump(schema)
       IN  \/ /\ file' = Stored(file.toks \o chunks)
              /\ pc' = "written"
              /\ UNCHANGED err
           \/ \E k \in 0..MaxCut :
                /\ k < Len(chunks)
                /\ file' = Stored(file.toks \o SubSeq(chunks, 1, k))
                /\ Fail("OSError")
    /\ UNCHANGED << schema, new_any_of, original_any_of, runs, start_file,
                    first_file, orig_file, args, result >>

\* lines 419-426: the summary is printed and main returns
PrintSummary ==
    /\ pc = "written"
    /\ pc' = "done"
    /\ UNCHANGED << file, err, schema, new_any_of, original_any_of, runs,
                    start_file, first_file, orig_file, args, result >>

\* lines 428-429: the script is invoked again on the file the last run left
RunAgain ==
    /\ pc = "done"
    /\ runs < MaxRuns
    /\ runs' = runs + 1
    /\ pc' = "start"
    /\ start_file' = file
    /\ first_file' = IF runs = 1 THEN file ELSE first_file
    /\ schema' = None
    /\ new_any_of' = << >>
    /\ original_any_of' = None
    /\ UNCHANGED << file, err, orig_file, args, result >>

Next ==
    \/ ReadSchema
    \/ BuildFields
    \/ KeepOthers
    \/ ReplaceAnyOf
    \/ OpenForWrite
    \/ DumpSchema
    \/ PrintSummary
    \/ RunAgain

Spec == Init /\ [][Next]_vars

----------------------------------------------------------------------------
(* single calls of create_text_field and create_number_field *)

Precision == GetItem(number_fields[2], "additional_props")

Currency == GetItem(number_fields[3], "additional_props")

\* values of additional_props: absent, empty, the catalog's, and dicts whose
\* keys are also keys of the template or of the schema itself
ExtraProps ==
    { None,
      Obj(<< >>),
      Precision,
      Currency,
      Update(Precision, Currency),
      Obj(<<KV("type", Obj(<<KV("const", Str("other"))>>))>>),
      Obj(<<KV("required", Arr(<< >>)),
            KV("additionalProperties", Bool(TRUE))>>),
      Obj(<<KV("scale", Obj(<<KV("type", Str("integer"))>>)),
            KV("default", Obj(<<KV("type", Str("integer"))>>))>>) }

Arguments ==
    [field_type : {"integer", "decimal", "email"},
     title : {"Integer Field", "Email Field"},
     description : {"Whole number field without decimal places."},
     business_rules : {Arr(<< >>), Arr(<<Str("rule")>>)},
     user_stories : {Arr(<< >>), Arr(<<Str("story")>>)},
     additional_props : ExtraProps]

SynthInit ==
    /\ file = Missing
    /\ start_file = Missing
    /\ orig_file = Missing
    /\ first_file = Missing
    /\ pc = "call"
    /\ err = "none"
    /\ schema = None
    /\ new_any_of = << >>
    /\ original_any_of = None
    /\ runs = 0
    /\ args \in Arguments
    /\ result = NoResult

\* lines 10-94
CallCreateTextField ==
    /\ pc = "call"
    /\ result' = [by |-> "create_text_field",
                  val |-> create_text_field(args.field_type, args.title,
                              args.description, args.business_rules,
                              args.user_stories)]
    /\ pc' = "returned"
    /\ UNCHANGED << file, err, schema, new_any_of, original_any_of, runs,
                    start_file, first_file, orig_file, args >>

\* lines 96-201
CallCreateNumberField ==
    /\ pc = "call"
    /\ result' = [by |-> "create_number_field",
                  val |-> create_number_field(args.field_type, args.title,
                              args.description, args.business_rules,
                              args.user_stories, args.additional_props)]
    /\ pc' = "returned"
    /\ UNCHANGED << file, err, schema, new_any_of, original_any_of, runs,
                    start_file, first_file, orig_file, args >>

SynthNext ==
    \/ CallCreateTextField
    \/ CallCreateNumberField

SynthSpec == SynthInit /\ [][SynthNext]_vars

----------------------------------------------------------------------------
(* properties of a run of main() *)

T == Len(text_fields)

N == Len(number_fields)

Max(a, b) == IF a >= b THEN a ELSE b

\* properties.type.const of a returned schema
TypeConst(s) == GetItem(GetItem(GetItem(s, "properties"), "type"), "const")

\* what json.load and the subscripts of line 405 find in file f: has is
\* TRUE when the file holds a document with a list at the path, v is the list
Union(f) ==
    IF ~f.exists THEN [has |-> FALSE, v |-> << >>]
    ELSE LET read == Load(f.toks)
             found == Subscript(read.val, FullPath, 1)
         IN  IF read.ok /\ found.err = "none" /\ found.val.t = "arr"
             THEN [has |-> TRUE, v |-> found.val.v]
             ELSE [has |-> FALSE, v |-> << >>]

\* C1: after a successful run on a union of length L >= 2, the written
\* union holds, from position T+N on, the original entries from index 2 on,
\* unchanged and in the original order.
C1_TailPreserved ==
    pc = "done" =>
        LET old == Union(start_file)
            new == Union(file)
        IN  (old.has /\ Len(old.v) >= 2) =>
              /\ new.has
              /\ Len(new.v) >= T + N + (Len(old.v) - 2)
              /\ \A k \in 0..(Len(old.v) - 3) :
                     new.v[T + N + k + 1] = old.v[2 + k + 1]

C1_Witness ==
    /\ pc = "done"
    /\ runs = 1
    /\ Len(Union(start_file).v) = 4
    /\ Union(start_file).v[3] # Union(start_file).v[4]
    /\ Union(file).v[T + N + 1] = Union(start_file).v[3]
    /\ Union(file).v[T + N + 2] = Union(start_file).v[4]

\* the schema main synthesizes from the i-th text descriptor
TextSchemaOf(i) ==
    create_text_field(GetItem(text_fields[i], "type").v,
                      GetItem(text_fields[i], "title").v,
                      GetItem(text_fields[i], "description").v,
                      GetItem(text_fields[i], "business_rules"),
                      GetItem(text_fields[i], "user_stories"))

\* the schema main synthesizes from the j-th number descriptor
NumberSchemaOf(j) ==
    create_number_field(GetItem(number_fields[j], "type").v,
                        GetItem(number_fields[j], "title").v,
                        GetItem(number_fields[j], "description").v,
                        GetItem(number_fields[j], "business_rules"),
                        GetItem(number_fields[j], "user_stories"),
                        GetItem(number_fields[j], "additional_props"))

\* C2: after a successful run the first T+N entries of the written union are
\* the synthesized schemas in catalog order, text first, then number; every
\* later entry is a preserved original one.
C2_SynthesizedFirst ==
    pc = "done" =>
        LET old == Union(start_file)
            new == Union(file)
        IN  /\ new.has
            /\ Len(new.v) >= T + N
            /\ \A i \in 1..T : new.v[i] = TextSchemaOf(i)
            /\ \A j \in 1..N : new.v[T + j] = NumberSchemaOf(j)
            /\ \A p \in (T + N + 1)..Len(new.v) :
                   \E q \in 3..Len(old.v) : new.v[p] = old.v[q]

C2_Witness ==
    /\ pc = "done"
    /\ runs = 1
    /\ Len(Union(start_file).v) = 3
    /\ TypeConst(Union(file).v[1]) = Str("single-line-text")
    /\ TypeConst(Union(file).v[T]) = Str("url")
    /\ TypeConst(Union(file).v[T + 1]) = Str("integer")
    /\ TypeConst(Union(file).v[T + N]) = Str("percentage")
    /\ Union(file).v[T + N + 1] \in Others

\* C3: the written union has length T + N + max(0, L - 2), L the length of
\* the original union.
C3_UnionLength ==
    pc = "done" =>
        LET old == Union(start_file)
            new == Union(file)
        IN  /\ new.has
            /\ Len(new.v) = T + N + Max(0, Len(old.v) - 2)

C3_Witness ==
    /\ pc = "done"
    /\ runs = 1
    /\ Len(Union(start_file).v) = 4
    /\ Len(Union(file).v) = T + N + 2

\* positions of main() at and after the replacement of the union
AfterReplace == {"replaced", "writing", "written", "done"}

\* C4: a run on a document whose union has fewer than two entries ends in a
\* fatal error: the union is not replaced, the file is not written and the
\* summary is not reached.
C4_ShortUnionIsFatal ==
    (pc \in AfterReplace \/ file # start_file) =>
        ~(Union(start_file).has /\ Len(Union(start_file).v) < 2)

\* the file holds the first k chunks of the serialized document d, k short
\* of all of them
TruncatedTo(f, d) ==
    LET chunks == Dump(d)
    IN  /\ f.exists
        /\ Len(f.toks) < Len(chunks)
        /\ f.toks = SubSeq(chunks, 1, Len(f.toks))

Terminated == pc \in {"done", "failed"}

\* C5 as stated: whenever a run has terminated, the file is exactly the
\* original document or exactly the complete serialized spliced document.
C5_AllOrNothing ==
    Terminated =>
        \/ file = start_file
        \/ /\ schema # None
           /\ file = Stored(Dump(schema))

\* C5, amended: a run that ends before the file is opened for writing, or
\* whose open fails, leaves the original document; a run that succeeds
\* leaves the complete serialized spliced document; a run whose write fails
\* after the open leaves a truncated (possibly empty) prefix of it.
C5_AllOrNothingUnlessWriteFails ==
    Terminated =>
        /\ (pc = "done") => file = Stored(Dump(schema))
        /\ (pc = "failed" /\ err # "OSError") => file = start_file
        /\ (pc = "failed" /\ err = "OSError") => TruncatedTo(file, schema)

C5_Witness ==
    /\ pc = "failed"
    /\ err = "OSError"
    /\ start_file.toks # << >>
    /\ file # start_file
    /\ TruncatedTo(file, schema)

\* the input of the run is missing, is no JSON, or lacks the path
BadInput ==
    \/ ~start_file.exists
    \/ LET read == Load(start_file.toks)
       IN  \/ ~read.ok
           \/ Subscript(read.val, FullPath, 1).err = "KeyError"

\* C6: on a missing or unparseable input file, or a document without the
\* path items.properties.fields.items.anyOf, the run aborts before the file
\* is opened for writing: the write step is not reached and the stored
\* document is unchanged.
C6_BadInputAborts ==
    (pc \in {"writing", "written", "done"} \/ file # start_file
       \/ (pc = "failed" /\ err \in {"PermissionError", "OSError"}))
        => ~BadInput

C6_Witness ==
    /\ pc = "failed"
    /\ err = "KeyError"
    /\ BadInput
    /\ file = start_file
    /\ Len(file.toks) > 0

\* C7: running main twice in sequence on a document with a union of length
\* >= 2 leaves the stored document equal to the document after the first run.
C7_Idempotent ==
    (runs = 2 /\ pc = "done" /\ Len(Union(orig_file).v) >= 2) =>
        file = first_file

----------------------------------------------------------------------------
(* properties of the schemas create_text_field and create_number_field return *)

Returned == result.by # "none"

RequiredList == Arr(<<Str("id"), Str("name"), Str("type")>>)

\* C9: every schema returned by create_text_field or create_number_field has
\* required = ["id", "name", "type"] and additionalProperties = false,
\* whatever the descriptor and the extra properties.
C9_RequiredAndClosed ==
    Returned =>
        /\ HasKey(result.val, "required")
        /\ GetItem(result.val, "required") = RequiredList
        /\ HasKey(result.val, "additionalProperties")
        /\ GetItem(result.val, "additionalProperties") = Bool(FALSE)

C9_Witness ==
    /\ result.by = "create_number_field"
    /\ Truthy(args.additional_props)
    /\ HasKey(args.additional_props, "required")
    /\ HasKey(args.additional_props, "additionalProperties")
    /\ HasKey(GetItem(result.val, "properties"), "additionalProperties")
    /\ GetItem(result.val, "required") = RequiredList

\* the type codes of the catalog, text descriptors first
TypeCodes ==
    [i \in 1..(T + N) |->
        IF i <= T THEN GetItem(text_fields[i], "type")
        ELSE GetItem(number_fields[i - T], "type")]

CollisionFree == \A i, j \in 1..(T + N) : TypeCodes[i] = TypeCodes[j] => i = j

\* the extra properties passed declare a property named type
ExtraDeclaresType ==
    /\ Truthy(args.additional_props)
    /\ HasKey(args.additional_props, "type")

\* C10 as stated: properties.type.const of every returned schema is the
\* descriptor's type code, with or without extra properties, and no two of
\* the nine catalog descriptors share a type code.
C10_ConstIsTypeCode ==
    /\ Returned => TypeConst(result.val) = Str(args.field_type)
    /\ CollisionFree

\* C10, amended: properties.type.const is the descriptor's type code for
\* every text schema, and for every number schema whose extra properties do
\* not themselves declare a property named type (such an extra property
\* replaces the template's); no catalog descriptor declares one, and no two
\* of the nine catalog descriptors share a type code.
C10_ConstIsTypeCodeUnlessOverridden ==
    /\ (Returned /\ ~(result.by = "create_number_field" /\ ExtraDeclaresType))
          => TypeConst(result.val) = Str(args.field_type)
    /\ (result.by = "create_number_field" /\ ExtraDeclaresType)
          => GetItem(GetItem(result.val, "properties"), "type")
                = GetItem(args.additional_props, "type")
    /\ \A j \in 1..N :
          ~HasKey(DictGet(number_fields[j], "additional_props", Obj(<< >>)), "type")
    /\ T + N = 9
    /\ CollisionFree

C10_Witness ==
    /\ result.by = "create_number_field"
    /\ Truthy(args.additional_props)
    /\ ~HasKey(args.additional_props, "type")
    /\ TypeConst(result.val) = Str(args.field_type)
    /\ args.field_type # args.title

\* the keys of the properties literal of create_text_field, lines 17-88
TextKeys == <<"id", "name", "required", "unique", "indexed", "type", "default">>

\* the keys of the properties literal of create_number_field, lines 103-190
NumberKeys ==
    <<"id", "name", "required", "unique", "indexed", "type", "min", "max",
      "default">>

Range(q) == { q[i] : i \in 1..Len(q) }

\* the keys of the extra properties a call passes; none for None
ExtraKeys(x) == IF x.t = "obj" THEN Keys(x) ELSE << >>

NoDuplicates(q) == \A i, j \in 1..Len(q) : q[i] = q[j] => i = j

\* C11: the keys of the properties mapping of a returned schema are exactly
\* the family's template keys (text: id, name, required, unique, indexed,
\* type, default; number: those plus min and max) together with the keys of
\* the extra properties; none is missing and no other is present.
C11_ClosedWorld ==
    Returned =>
        LET keys == Keys(GetItem(result.val, "properties"))
        IN  /\ NoDuplicates(keys)
            /\ (result.by = "create_text_field") => Range(keys) = Range(TextKeys)
            /\ (result.by = "create_number_field") =>
                   Range(keys) = Range(NumberKeys)
                                   \cup Range(ExtraKeys(args.additional_props))

C11_Witness ==
    /\ result.by = "create_number_field"
    /\ args.additional_props = Update(Precision, Currency)
    /\ Range(Keys(GetItem(result.val, "properties")))
          = Range(NumberKeys) \cup {"precision", "currency"}

\* what create_number_field returns for the arguments of the call when
\* additional_props is left at its default None
WithoutExtras ==
    create_number_field(args.field_type, args.title, args.description,
                        args.business_rules, args.user_stories, None)

\* C12: a number descriptor with an empty extra-properties mapping gives the
\* schema the same descriptor gives with no extra properties at all
\* (additional_props = {} and None agree), with no empty container in it;
\* so do the catalog's descriptors whose additional_props is {}.
C12_EmptyExtrasAsNone ==
    /\ (result.by = "create_number_field" /\ args.additional_props = Obj(<< >>))
          => /\ result.val = WithoutExtras
             /\ Keys(GetItem(result.val, "properties")) = NumberKeys
             /\ \A i \in 1..Len(result.val.v) : result.val.v[i].v # Obj(<< >>)
    /\ \A j \in 1..N :
          GetItem(number_fields[j], "additional_props") = Obj(<< >>)
            => NewAnyOf[T + j]
                 = create_number_field(GetItem(number_fields[j], "type").v,
                                       GetItem(number_fields[j], "title").v,
                                       GetItem(number_fields[j], "description").v,
                                       GetItem(number_fields[j], "business_rules"),
                                       GetItem(number_fields[j], "user_stories"),
                                       None)

C12_Witness ==
    /\ result.by = "create_number_field"
    /\ args.additional_props = Obj(<< >>)
    /\ result.val = WithoutExtras
    /\ Keys(GetItem(result.val, "properties")) = NumberKeys

----------------------------------------------------------------------------
(* what a run of main() leaves alone *)

\* documents a and b have the same keys in the same order at every level
\* path[i..] leads through, and equal values under every key off the path;
\* the value under the last key of the path is not compared
RECURSIVE SameOffPath(_, _, _, _)
SameOffPath(a, b, path, i) ==
    /\ a.t = "obj"
    /\ b.t = "obj"
    /\ Keys(a) = Keys(b)
    /\ \A n \in 1..Len(a.v) :
          IF a.v[n].k = path[i]
          THEN i = Len(path) \/ SameOffPath(a.v[n].v, b.v[n].v, path, i + 1)
          ELSE a.v[n].v = b.v[n].v

\* C13: a successful run changes only the value at
\* items.properties.fields.items.anyOf: every other key and value of the
\* document read (top level, items, items.properties, fields, fields.items)
\* is the same, and in the same place, in the document written.
C13_OnlyUnionChanges ==
    pc = "done" =>
        LET old == Load(start_file.toks)
            new == Load(file.toks)
        IN  /\ old.ok
            /\ new.ok
            /\ SameOffPath(old.val, new.val, FullPath, 1)

C13_Witness ==
    /\ pc = "done"
    /\ runs = 1
    /\ Union(file).v # Union(start_file).v
    /\ LET new == Load(file.toks).val
           items == Subscript(new, ItemsPath, 1).val
       IN  /\ Keys(new) = <<"title", "rank", "items", "description">>
           /\ Keys(items) = <<"title", "rank", "anyOf", "description">>
           /\ GetItem(items, "rank") = Num(Len(ItemsPath))

----------------------------------------------------------------------------
(* the order of the properties of a number schema *)

NumberProperties == Keys(GetItem(result.val, "properties"))

\* the extra keys of the call that are not keys of the template
NewExtraKeys ==
    SelectSeq(ExtraKeys(args.additional_props),
              LAMBDA k : k \notin Range(NumberKeys))

\* C14 as stated: the properties of a number schema are ordered id, name,
\* required, unique, indexed, type, min, max, default, followed by the extra
\* property keys in their declared order, every extra key after every
\* template key.
C14_TemplateThenExtras ==
    result.by = "create_number_field" =>
        NumberProperties = NumberKeys \o ExtraKeys(args.additional_props)

\* C14, amended: the properties of a number schema are ordered id, name,
\* required, unique, indexed, type, min, max, default, followed, in their
\* declared order, by the extra property keys that are not template keys; an
\* extra property whose key is a template key takes that key's place in the
\* template (its value replaces the template's) and is not appended.  No
\* extra property of the catalog has a template key.
C14_TemplateThenNewExtras ==
    /\ (result.by = "create_number_field") =>
          /\ NumberProperties = NumberKeys \o NewExtraKeys
          /\ \A i \in 1..Len(ExtraKeys(args.additional_props)) :
                LET k == ExtraKeys(args.additional_props)[i]
                IN  GetItem(GetItem(result.val, "properties"), k)
                      = GetItem(args.additional_props, k)
    /\ \A j \in 1..N :
          Range(ExtraKeys(GetItem(number_fields[j], "additional_props")))
            \cap Range(NumberKeys) = {}

C14_Witness ==
    /\ result.by = "create_number_field"
    /\ args.additional_props = Update(Precision, Currency)
    /\ NumberProperties = NumberKeys \o <<"precision", "currency">>

============================================================================
